---------------------------- MODULE Spec2Model ----------------------------
(***************************************************************************)
(* Model of codebase/fetch_audio.py: the metadata provider (get_reciters,  *)
(* get_surahs), the verse range resolver (get_recitations), the batch      *)
(* downloader (download_recitations) and the caption writer                *)
(* (generate_ayat_caption_file).                                           *)
(*                                                                         *)
(* Every function is one action.  What the outside world answers (the      *)
(* JSON catalogs, the status and text of each verse request, whether a     *)
(* download succeeds, what is on disk beforehand) is drawn from a small    *)
(* set: the catalogs and the disk when the run starts, the rest when the   *)
(* call is made.  The state records the call: its name, its arguments and  *)
(* the answers it read, how it ended, the HTTP requests and downloads it   *)
(* made in order, and the file system it left behind.                      *)
(*                                                                         *)
(* Strings the code builds by concatenation are sequences of tokens, built *)
(* in the same order; str(n) is the decimal numeral of n.  Library calls   *)
(* are taken to answer (requests.get returns a response, os.mkdir creates  *)
(* the directory, open succeeds): the outcomes modelled are the ones the   *)
(* code itself distinguishes.                                              *)
(***************************************************************************)
EXTENDS Integers, Sequences, FiniteSets, TLC

VARIABLES
    upstream,     \* the catalogs the API serves during the run: editions, surah references
    op,           \* name of the function called last ("idle" before any call)
    args,         \* its arguments, and the answers the outside world gave it
    ret,          \* how it ended: returned a value, raised, or exited the process
    http,         \* the HTTP GET requests it made, in order
    downloads,    \* the download_file calls it made, in order, with their results
    dirs,         \* file system: the directories that exist
    files,        \* file system: the audio files that exist
    captionFile,  \* file system: the caption file at the destination path
    stdout        \* the diagnostics printed by the last call

vars == <<upstream, op, args, ret, http, downloads, dirs, files, captionFile, stdout>>

-----------------------------------------------------------------------------
(* Bounds of the model *)

MaxSurahs == 2        \* surahs in the upstream catalog: 0..MaxSurahs

MaxAya == 3           \* verses per surah: 0..MaxAya

MaxLinks == 3         \* links handed to download_recitations: 0..MaxLinks

MaxLen == 2           \* texts, and durations, handed to the caption writer: 0..MaxLen

MaxDuration == 3      \* a duration, in units of the float model: 0..MaxDuration

FloatBits == 2        \* significant bits a float of the model keeps

-----------------------------------------------------------------------------
(* Outcomes of a call *)

None == <<>>

Return(v) == [kind |-> "return", exc |-> "", msg |-> <<>>, value |-> v]

Raise(e, m) == [kind |-> "raise", exc |-> e, msg |-> m, value |-> None]

Exit == [kind |-> "exit", exc |-> "SystemExit", msg |-> <<>>, value |-> None]

\* a check that raised nothing
Passed == [kind |-> "ok", exc |-> "", msg |-> <<>>, value |-> None]

-----------------------------------------------------------------------------
(* str(n): the decimal numeral of an integer, as Python prints it *)

Digit(d) == <<"0", "1", "2", "3", "4", "5", "6", "7", "8", "9">>[d + 1]

RECURSIVE Str(_)
Str(n) ==
    IF n < 0 THEN <<"-">> \o Str(-n)
    ELSE IF n < 10 THEN <<Digit(n)>>
    ELSE Str(n \div 10) \o <<Digit(n % 10)>>

-----------------------------------------------------------------------------
(* What the upstream API may answer *)

\* entries of /v1/edition/format/audio: Arabic and other-language editions
Editions ==
    { [language |-> "ar", name |-> "Alafasy",  identifier |-> "ar.alafasy"],
      [language |-> "en", name |-> "Walk",     identifier |-> "en.walk"],
      [language |-> "ar", name |-> "Husary",   identifier |-> "ar.husary"] }

Ed(id) == CHOOSE e \in Editions : e.identifier = id

EditionCatalogs ==
    { <<>>,
      <<Ed("ar.alafasy")>>,
      <<Ed("en.walk"), Ed("ar.alafasy")>>,
      <<Ed("ar.alafasy"), Ed("en.walk"), Ed("ar.husary")>> }

\* entries of /v1/meta data.surahs.references
SurahRefs == { [name |-> "surah", numberOfAyahs |-> n] : n \in 0..MaxAya }

SurahCatalogs == UNION { [1..n -> SurahRefs] : n \in 0..MaxSurahs }

\* the phrase removed from the first verse (the literal at line 126), as characters
Bismillah == <<"b", "m">>

Whitespace == {" ", "\n"}

\* verse texts /v1/ayah/{n} may carry: the phrase alone, the phrase before the
\* verse, no phrase; with and without surrounding white space
AyahTexts ==
    { <<"b", "m">>,
      <<"b", "m", " ", "x", "\n">>,
      <<" ", "x", " ">> }

AyahResponses ==
    { [status_code |-> 200, text |-> t] : t \in AyahTexts }
        \cup { [status_code |-> 404, text |-> <<>>] }

ResponseSeqs(n) == [1..n -> AyahResponses]

MetaUrl == <<"https://api.alquran.cloud/v1/meta">>

EditionUrl == <<"https://api.alquran.cloud/v1/edition/format/audio">>

AyahUrl(aya) == <<"https://api.alquran.cloud/v1/ayah/">> \o Str(aya)

-----------------------------------------------------------------------------
(* get_reciters: the Arabic editions, numbered 1.. in catalog order *)

RECURSIVE get_reciters_loop(_, _, _)
get_reciters_loop(data, k, id) ==
    IF k > Len(data) THEN <<>>
    ELSE IF data[k].language = "ar"
         THEN <<[id |-> id, name |-> data[k].name, code |-> data[k].identifier]>>
                  \o get_reciters_loop(data, k + 1, id + 1)
         ELSE get_reciters_loop(data, k + 1, id)

get_reciters(data) == get_reciters_loop(data, 1, 1)

(* get_surahs: ids 1.. and the running sum of the verse counts *)

RECURSIVE get_surahs_loop(_, _, _)
get_surahs_loop(references, id, aya_base) ==
    IF id > Len(references) THEN <<>>
    ELSE <<[id |-> id, name |-> references[id].name, aya_base |-> aya_base,
            n_aya |-> references[id].numberOfAyahs]>>
             \o get_surahs_loop(references, id + 1,
                                aya_base + references[id].numberOfAyahs)

\* get_surahs with the running sum started at 1, the number of the first verse
get_surahs_base_one(references) == get_surahs_loop(references, 1, 1)

get_surahs(references) == get_surahs_loop(references, 1, 0)

-----------------------------------------------------------------------------
(* Text helpers of get_recitations *)

\* text.replace(phrase, ""): one pass from the left, every occurrence found
\* in the original text removed, occurrences do not overlap
RECURSIVE replace(_, _)
replace(text, phrase) ==
    IF Len(text) < Len(phrase) THEN text
    ELSE IF SubSeq(text, 1, Len(phrase)) = phrase
         THEN replace(SubSeq(text, Len(phrase) + 1, Len(text)), phrase)
         ELSE <<Head(text)>> \o replace(Tail(text), phrase)

RECURSIVE lstrip(_)
lstrip(text) ==
    IF text # <<>> /\ Head(text) \in Whitespace THEN lstrip(Tail(text)) ELSE text

RECURSIVE rstrip(_)
rstrip(text) ==
    IF text # <<>> /\ text[Len(text)] \in Whitespace
    THEN rstrip(SubSeq(text, 1, Len(text) - 1))
    ELSE text

\* text.strip()
strip(text) == rstrip(lstrip(text))

-----------------------------------------------------------------------------
(* get_recitations *)

\* the list comprehension of line 92: the codes of the reciters with this id
RECURSIVE reciter_codes(_, _)
reciter_codes(reciters, reciter_number) ==
    IF reciters = <<>> THEN <<>>
    ELSE (IF Head(reciters).id = reciter_number THEN <<Head(reciters).code>> ELSE <<>>)
             \o reciter_codes(Tail(reciters), reciter_number)

\* [surah["id"] for surah in surahs]
surah_ids(surahs) == { surahs[k].id : k \in 1..Len(surahs) }

\* [surah for surah in surahs if surah["id"] == surah_number][0]
find_surah(surahs, surah_number) ==
    surahs[CHOOSE k \in 1..Len(surahs) :
              /\ surahs[k].id = surah_number
              /\ \A j \in 1..(k - 1) : surahs[j].id # surah_number]

\* the range checks with the first one off by one: end >= n_aya refused
validate_aya_numbers_inclusive_end(surah, start, end) ==
    IF end >= surah.n_aya
    THEN Raise("Exception",
               <<"Surah ", surah.name, " only contain ">> \o Str(surah.n_aya)
                   \o <<" ayat. Aya number ">> \o Str(end) \o <<" was required">>)
    ELSE IF start < 1
    THEN Raise("Exception", <<"start can't be less than one">>)
    ELSE IF end < start
    THEN Raise("Exception", <<"end can't be less than start">>)
    ELSE Passed

\* the range checks with start checked before end
validate_aya_numbers_start_first(surah, start, end) ==
    IF start < 1
    THEN Raise("Exception", <<"start can't be less than one">>)
    ELSE IF end > surah.n_aya
    THEN Raise("Exception",
               <<"Surah ", surah.name, " only contain ">> \o Str(surah.n_aya)
                   \o <<" ayat. Aya number ">> \o Str(end) \o <<" was required">>)
    ELSE IF end < start
    THEN Raise("Exception", <<"end can't be less than start">>)
    ELSE Passed

\* the three range checks, in the order of the code; Passed when none raises
validate_aya_numbers(surah, start, end) ==
    IF end > surah.n_aya
    THEN Raise("Exception",
               <<"Surah ", surah.name, " only contain ">> \o Str(surah.n_aya)
                   \o <<" ayat. Aya number ">> \o Str(end) \o <<" was required">>)
    ELSE IF start < 1
    THEN Raise("Exception", <<"start can't be less than one">>)
    ELSE IF end < start
    THEN Raise("Exception", <<"end can't be less than start">>)
    ELSE Passed

\* the verse numbers with range(start, end): the last verse left out
RECURSIVE required_ayat_exclusive(_, _, _)
required_ayat_exclusive(surah, start, end) ==
    IF start >= end THEN <<>>
    ELSE <<start + surah.aya_base>> \o required_ayat_exclusive(surah, start + 1, end)

\* from aya number per surah to aya number per quran: range(start, end + 1)
RECURSIVE required_ayat(_, _, _)
required_ayat(surah, start, end) ==
    IF start > end THEN <<>>
    ELSE <<start + surah.aya_base>> \o required_ayat(surah, start + 1, end)

\* surah == 1, where surah is the dict of the surah: Python compares a dict
\* with an int as unequal, whatever the dict holds
DictEqualsInt(surah, n) == FALSE

\* True if((not surah==1) and (start==1)) else False
remove_bismillah(surah, start) == (~DictEqualsInt(surah, 1)) /\ (start = 1)

audio_link(reciter, aya) ==
    <<"https://cdn.islamic.network/quran/audio/192/">> \o <<reciter>>
        \o <<"/">> \o Str(aya) \o <<".mp3">>

\* the text of the recitation built at position i (0-based, as enumerate counts)
recitation_text(i, remove, text) ==
    strip(IF i = 0 /\ remove THEN replace(text, Bismillah) ELSE text)

\* the fetch loop with a failed verse skipped instead of raised
RECURSIVE fetch_ayat_skip_failed(_, _, _, _, _, _, _)
fetch_ayat_skip_failed(ayat, k, reciter, remove, responses, recitations, requests) ==
    IF k > Len(ayat) THEN [out |-> Return(recitations), requests |-> requests]
    ELSE LET aya == ayat[k]
             text_response == responses[k]
             asked == Append(requests, AyahUrl(aya))
         IN  fetch_ayat_skip_failed(ayat, k + 1, reciter, remove, responses,
                 IF text_response.status_code = 200
                 THEN Append(recitations,
                             [text |-> recitation_text(k - 1, remove, text_response.text),
                              audio_link |-> audio_link(reciter, aya)])
                 ELSE recitations,
                 asked)

\* the fetch loop; k is the 1-based position in required_ayat (i = k - 1),
\* responses[k] what the API answers to the k-th verse request
RECURSIVE fetch_ayat(_, _, _, _, _, _, _)
fetch_ayat(ayat, k, reciter, remove, responses, recitations, requests) ==
    IF k > Len(ayat) THEN [out |-> Return(recitations), requests |-> requests]
    ELSE LET aya == ayat[k]
             link == audio_link(reciter, aya)
             text_response == responses[k]
             asked == Append(requests, AyahUrl(aya))
         IN  IF text_response.status_code = 200
             THEN fetch_ayat(ayat, k + 1, reciter, remove, responses,
                      Append(recitations,
                             [text |-> recitation_text(k - 1, remove, text_response.text),
                              audio_link |-> link]),
                      asked)
             ELSE [out |-> Raise("FetchError",
                                 <<"Error in fetching text of aya number ">> \o Str(aya)),
                   requests |-> asked]

\* lines 88-105: the lookups and the range checks.  Either the error raised,
\* or the reciter code and the surah the fetch loop works with.  An id with
\* no entry fails at the [0] of line 92; the test of line 93 is reached only
\* with the code of an entry, and refuses an empty one (the identifiers of
\* EditionCatalogs, like those upstream serves, are not empty).
resolve_request(reciter_number, surah_number, start, end, editions, references) ==
    LET surahs == get_surahs(references)
        codes == reciter_codes(get_reciters(editions), reciter_number)
    IN  IF codes = <<>>
        THEN [ok |-> FALSE, out |-> Raise("IndexError", <<"list index out of range">>)]
        ELSE IF codes[1] = ""
        THEN [ok |-> FALSE, out |-> Raise("FetchError", <<"Reciter id doesnt exist">>)]
        ELSE IF surah_number \notin surah_ids(surahs)
        THEN [ok |-> FALSE, out |-> Raise("FetchError", <<"Surah id doesnt exist">>)]
        ELSE LET surah == find_surah(surahs, surah_number)
                 checked == validate_aya_numbers(surah, start, end)
             IN  IF checked # Passed
                 THEN [ok |-> FALSE, out |-> checked]
                 ELSE [ok |-> TRUE, reciter |-> codes[1], surah |-> surah]

\* the number of verse requests the call can make
request_count(reciter_number, surah_number, start, end, editions, references) ==
    LET pre == resolve_request(reciter_number, surah_number, start, end,
                               editions, references)
    IN  IF pre.ok THEN Len(required_ayat(pre.surah, start, end)) ELSE 0

\* the whole function: its outcome and the verse requests it made
get_recitations(reciter_number, surah_number, start, end, editions, references, responses) ==
    LET pre == resolve_request(reciter_number, surah_number, start, end,
                               editions, references)
    IN  IF ~pre.ok
        THEN [out |-> pre.out, requests |-> <<>>]
        ELSE fetch_ayat(required_ayat(pre.surah, start, end), 1, pre.reciter,
                        remove_bismillah(pre.surah, start), responses, <<>>, <<>>)

-----------------------------------------------------------------------------
(* The actions of the metadata provider and the resolver.  A run is one call *)
(* of one function, on inputs of its own.                                    *)

ReciterNumbers == 0..3

SurahNumbers == 0..(MaxSurahs + 1)

AyaNumbers == (-1)..(MaxAya + 1)

NoArgs == [f |-> "none"]

GetReciters ==
    /\ op = "idle"
    /\ op' = "get_reciters"
    /\ args' = NoArgs
    /\ ret' = Return(get_reciters(upstream.editions))
    /\ http' = <<EditionUrl>>
    /\ UNCHANGED <<upstream, downloads, dirs, files, captionFile, stdout>>

GetSurahs ==
    /\ op = "idle"
    /\ op' = "get_surahs"
    /\ args' = NoArgs
    /\ ret' = Return(get_surahs(upstream.references))
    /\ http' = <<MetaUrl>>
    /\ UNCHANGED <<upstream, downloads, dirs, files, captionFile, stdout>>

GetRecitations ==
    /\ op = "idle"
    /\ \E reciter_number \in ReciterNumbers, surah_number \in SurahNumbers,
          start \in AyaNumbers, end \in AyaNumbers :
        \E responses \in ResponseSeqs(request_count(reciter_number, surah_number,
                             start, end, upstream.editions, upstream.references)) :
            LET r == get_recitations(reciter_number, surah_number, start, end,
                         upstream.editions, upstream.references, responses)
            IN  /\ op' = "get_recitations"
                /\ args' = [reciter_number |-> reciter_number,
                            surah_number |-> surah_number,
                            start |-> start, end |-> end,
                            \* the answers the call actually read
                            responses |-> SubSeq(responses, 1, Len(r.requests))]
                /\ ret' = r.out
                /\ http' = <<MetaUrl, EditionUrl>> \o r.requests
                /\ UNCHANGED <<upstream, downloads, dirs, files, captionFile, stdout>>

Idle ==
    /\ op = "idle"
    /\ args = NoArgs
    /\ ret = Return(None)
    /\ http = <<>>
    /\ downloads = <<>>
    /\ stdout = <<>>

InitFetch ==
    /\ upstream \in [editions : EditionCatalogs, references : SurahCatalogs]
    /\ Idle
    /\ dirs = {}
    /\ files = {}
    /\ captionFile = [exists |-> FALSE, lines |-> <<>>]

NextFetch == GetReciters \/ GetSurahs \/ GetRecitations

SpecFetch == InitFetch /\ [][NextFetch]_vars

-----------------------------------------------------------------------------
(* download_recitations *)

\* os.path.join(destination, name): the entry called name of the directory
path_join(destination, name) == [dir |-> destination, name |-> name]

\* codebase.utils.download_file(link, file_path, debug): tells whether the
\* download succeeded; a successful one leaves the file at file_path
download_file(fs, file_path, succsess) ==
    IF succsess THEN fs \cup {file_path} ELSE fs

ProblemDownloading ==
    <<"Problem downloading recitation:", "(1) Change reciter and ayat",
      "(2) Check your network connection">>

\* the download loop with a failed download reported but the batch carried on
RECURSIVE download_loop_keep_going(_, _, _, _, _, _, _)
download_loop_keep_going(recitations, destination, results, k, audios, log, fs) ==
    IF k > Len(recitations)
    THEN [out |-> Return(audios), downloads |-> log, files |-> fs, stdout |-> <<>>]
    ELSE LET file_path == path_join(destination,
                                    <<"recitation_">> \o Str(k - 1) \o <<".mp3">>)
             succsess == results[k]
         IN  download_loop_keep_going(recitations, destination, results, k + 1,
                 IF succsess THEN Append(audios, file_path) ELSE audios,
                 Append(log, [link |-> recitations[k], path |-> file_path,
                              ok |-> succsess]),
                 download_file(fs, file_path, succsess))

\* the loop over enumerate(recitations); k is the 1-based position (i = k - 1),
\* results[k] whether the k-th download succeeds, log the download_file calls
RECURSIVE download_loop(_, _, _, _, _, _, _)
download_loop(recitations, destination, results, k, audios, log, fs) ==
    IF k > Len(recitations)
    THEN [out |-> Return(audios), downloads |-> log, files |-> fs, stdout |-> <<>>]
    ELSE LET file_path == path_join(destination,
                                    <<"recitation_">> \o Str(k - 1) \o <<".mp3">>)
             succsess == results[k]
             called == Append(log, [link |-> recitations[k], path |-> file_path,
                                    ok |-> succsess])
             written == download_file(fs, file_path, succsess)
         IN  IF ~succsess
             THEN [out |-> Exit, downloads |-> called, files |-> written,
                   stdout |-> ProblemDownloading]
             ELSE download_loop(recitations, destination, results, k + 1,
                                Append(audios, file_path), called, written)

\* the directories after "if not os.path.exists(destination): os.mkdir(destination)"
ensure_directory(directories, destination) ==
    IF destination \notin directories THEN directories \cup {destination}
    ELSE directories

Links == { audio_link("ar.alafasy", 1), audio_link("ar.alafasy", 8) }

LinkSeqs == UNION { [1..n -> Links] : n \in 0..MaxLinks }

Destinations == { "./temp/mp3/", "./out" }

DownloadRecitations ==
    /\ op = "idle"
    /\ \E recitations \in LinkSeqs, destination \in Destinations :
        \E results \in [1..Len(recitations) -> BOOLEAN] :
            LET r == download_loop(recitations, destination, results, 1,
                                   <<>>, <<>>, files)
            IN  /\ op' = "download_recitations"
                /\ args' = [recitations |-> recitations, destination |-> destination]
                /\ ret' = r.out
                /\ downloads' = r.downloads
                /\ dirs' = ensure_directory(dirs, destination)
                /\ files' = r.files
                /\ stdout' = r.stdout
                /\ UNCHANGED <<upstream, http, captionFile>>

NoUpstream == [editions |-> <<>>, references |-> <<>>]

\* the disk before the run: the destination may exist, with a file of an
\* earlier run in it
InitDownload ==
    /\ upstream = NoUpstream
    /\ Idle
    /\ dirs \in SUBSET Destinations
    /\ files \in SUBSET { path_join(d, <<"recitation_", "0", ".mp3">>) : d \in dirs }
    /\ captionFile = [exists |-> FALSE, lines |-> <<>>]

NextDownload == DownloadRecitations

SpecDownload == InitDownload /\ [][NextDownload]_vars

-----------------------------------------------------------------------------
(* generate_ayat_caption_file *)

RECURSIVE Pow2(_)
Pow2(e) == IF e = 0 THEN 1 ELSE 2 * Pow2(e - 1)

\* the spacing of the floats around n: 1 while n fits FloatBits bits
RECURSIVE Ulp(_, _)
Ulp(n, unit) == IF n < Pow2(FloatBits) * unit THEN unit ELSE Ulp(n, 2 * unit)

\* the float nearest to the real n >= 0, ties to the even mantissa
RoundFloat(n) ==
    LET unit == Ulp(n, 1)
        q == n \div unit
        r == n % unit
    IN  IF 2 * r < unit THEN q * unit
        ELSE IF 2 * r > unit THEN (q + 1) * unit
        ELSE IF q % 2 = 0 THEN q * unit ELSE (q + 1) * unit

\* a + b on floats: the exact sum, rounded
FloatAdd(a, b) == RoundFloat(a + b)

seperator == ":"

\* the caption loop with the running sum never moved on
RECURSIVE caption_lines_no_carry(_, _, _, _)
caption_lines_no_carry(ayat_texts, ayat_durations, i, cummulative_duration) ==
    IF i > Len(ayat_durations) THEN <<>>
    ELSE <<<<cummulative_duration, seperator,
             FloatAdd(cummulative_duration, ayat_durations[i]), seperator,
             ayat_texts[i], "\n">>>>
             \o caption_lines_no_carry(ayat_texts, ayat_durations, i + 1,
                                       cummulative_duration)

\* the loop of lines 215-217 from position i (1-based) on: one write per
\* entry, the fields of the f-string in order, then the running sum moves on
RECURSIVE caption_lines(_, _, _, _)
caption_lines(ayat_texts, ayat_durations, i, cummulative_duration) ==
    IF i > Len(ayat_durations) THEN <<>>
    ELSE <<<<cummulative_duration, seperator,
             FloatAdd(cummulative_duration, ayat_durations[i]), seperator,
             ayat_texts[i], "\n">>>>
             \o caption_lines(ayat_texts, ayat_durations, i + 1,
                              FloatAdd(cummulative_duration, ayat_durations[i]))

SizeMismatch ==
    <<"Both ayat texts and durations arrays should be of the same size">>

\* the caption writer with the file opened before the sizes are compared
generate_ayat_caption_file_open_first(ayat_texts, ayat_durations, file) ==
    IF ~(Len(ayat_durations) = Len(ayat_texts))
    THEN [out |-> Raise("Exception", SizeMismatch),
          file |-> [exists |-> TRUE, lines |-> <<>>]]
    ELSE [out |-> Return(None),
          file |-> [exists |-> TRUE,
                    lines |-> caption_lines(ayat_texts, ayat_durations, 1, 0)]]

\* the whole function: its outcome and the file at destination afterwards;
\* open(destination, "w") creates the file or empties the one that is there
generate_ayat_caption_file(ayat_texts, ayat_durations, file) ==
    IF ~(Len(ayat_durations) = Len(ayat_texts))
    THEN [out |-> Raise("Exception", SizeMismatch), file |-> file]
    ELSE [out |-> Return(None),
          file |-> [exists |-> TRUE,
                    lines |-> caption_lines(ayat_texts, ayat_durations, 1, 0)]]

Texts == { <<"x">>, <<"b", "m">> }

TextSeqs == UNION { [1..n -> Texts] : n \in 0..MaxLen }

DurationSeqs == UNION { [1..n -> 0..MaxDuration] : n \in 0..MaxLen }

GenerateAyatCaptionFile ==
    /\ op = "idle"
    /\ \E ayat_texts \in TextSeqs, ayat_durations \in DurationSeqs :
        LET r == generate_ayat_caption_file(ayat_texts, ayat_durations, captionFile)
        IN  /\ op' = "generate_ayat_caption_file"
            /\ args' = [ayat_texts |-> ayat_texts, ayat_durations |-> ayat_durations]
            /\ ret' = r.out
            /\ captionFile' = r.file
            /\ UNCHANGED <<upstream, http, downloads, dirs, files, stdout>>

\* the disk before the run: no file at the destination, or one of an earlier run
InitCaptions ==
    /\ upstream = NoUpstream
    /\ Idle
    /\ dirs = {}
    /\ files = {}
    /\ captionFile \in { [exists |-> FALSE, lines |-> <<>>],
                         [exists |-> TRUE,
                          lines |-> <<<<0, seperator, 1, seperator, <<"x">>, "\n">>>>] }

NextCaptions == GenerateAyatCaptionFile

SpecCaptions == InitCaptions /\ [][NextCaptions]_vars

-----------------------------------------------------------------------------
(* Vocabulary of the properties of the resolver, stated on the arguments of  *)
(* the call and the upstream catalogs, not on the lists the code derives.    *)

Resolved == op = "get_recitations"

\* the reciter list has an entry with this id
KnownReciter == \E k \in 1..Len(get_reciters(upstream.editions)) :
                    get_reciters(upstream.editions)[k].id = args.reciter_number

KnownSurah == args.surah_number \in 1..Len(upstream.references)

NAya == upstream.references[args.surah_number].numberOfAyahs

RECURSIVE SumAyahs(_, _)
SumAyahs(references, k) ==
    IF k = 0 THEN 0 ELSE SumAyahs(references, k - 1) + references[k].numberOfAyahs

\* the number of verses of all the surahs before surah_number
AyaBase == SumAyahs(upstream.references, args.surah_number - 1)

ValidRange == 1 <= args.start /\ args.start <= args.end /\ args.end <= NAya

RangeError == ret.kind = "raise" /\ ret.exc = "Exception"

\* the verse requests of the call, after the two catalog requests
VerseRequests == SubSeq(http, 3, Len(http))

ReciterCode == get_reciters(upstream.editions)[args.reciter_number].code

EndLimitMessage ==
    <<"Surah ", upstream.references[args.surah_number].name, " only contain ">>
        \o Str(NAya) \o <<" ayat. Aya number ">> \o Str(args.end)
        \o <<" was required">>

\* C1: in a returned result, element i has the Bismillah phrase removed if
\* and only if i = 0, start = 1 and surah_id # 1; the first verse of surah 1
\* keeps it, and no later element loses it.
C1_StrippedIffFirstVerseOfLaterSurah ==
    (Resolved /\ ret.kind = "return") =>
        \A k \in 1..Len(ret.value) :
            ret.value[k].text =
                strip(IF k = 1 /\ args.start = 1 /\ args.surah_number # 1
                      THEN replace(args.responses[k].text, Bismillah)
                      ELSE args.responses[k].text)

\* C2: a reciter_id that matches no entry of the reciter list makes the call
\* fail with FetchError "reciter id doesn't exist", whatever the other arguments.
C2_UnknownReciterIsFetchError ==
    (Resolved /\ ~KnownReciter) =>
        /\ ret.kind = "raise"
        /\ ret.exc = "FetchError"
        /\ ret.msg = <<"Reciter id doesnt exist">>

\* C3: with a known reciter and surah, the call fails with a range error,
\* before any verse text is fetched, whenever end > n_aya or start < 1 or
\* end < start; it passes validation exactly when 1 <= start <= end <= n_aya.
C3_RangeValidation ==
    (Resolved /\ KnownReciter /\ KnownSurah) =>
        /\ (args.end > NAya \/ args.start < 1 \/ args.end < args.start)
               => (RangeError /\ VerseRequests = <<>>)
        /\ ValidRange <=> ~RangeError
        /\ ValidRange <=> VerseRequests # <<>>

C3_Witness ==
    /\ Resolved /\ KnownReciter /\ KnownSurah
    /\ args.start < 1 /\ args.end <= NAya
    /\ RangeError /\ VerseRequests = <<>>

\* C4: a valid request whose verse fetches all succeed returns end - start + 1
\* entries; the k-th (k = 0..end-start) is built for global verse index
\* start + k + aya_base, in ascending order, with the CDN link of that index.
C4_OneEntryPerVerseInOrder ==
    (/\ Resolved /\ KnownReciter /\ KnownSurah /\ ValidRange
     /\ \A k \in 1..Len(args.responses) : args.responses[k].status_code = 200) =>
        /\ ret.kind = "return"
        /\ Len(ret.value) = args.end - args.start + 1
        /\ Len(VerseRequests) = args.end - args.start + 1
        /\ \A k \in 1..Len(ret.value) :
               LET index == args.start + (k - 1) + AyaBase
               IN  /\ VerseRequests[k] =
                          <<"https://api.alquran.cloud/v1/ayah/">> \o Str(index)
                   /\ ret.value[k].audio_link =
                          <<"https://cdn.islamic.network/quran/audio/192/",
                            ReciterCode, "/">> \o Str(index) \o <<".mp3">>

C4_Witness ==
    /\ Resolved /\ ret.kind = "return"
    /\ args.surah_number = 2 /\ AyaBase > 0
    /\ args.start = 1 /\ args.end = 2
    /\ Len(ret.value) = 2

\* C8: the list get_surahs returns has ids 1..N in upstream order, aya_base 0
\* for the first surah and aya_base(id) = aya_base(id-1) + n_aya(id-1) after
\* it; aya_base is strictly increasing when every n_aya is at least 1.
C8_AyaBaseRunningSum ==
    op = "get_surahs" =>
        LET surahs == ret.value
            references == upstream.references
        IN  /\ ret.kind = "return"
            /\ Len(surahs) = Len(references)
            /\ \A k \in 1..Len(surahs) :
                   /\ surahs[k].id = k
                   /\ surahs[k].name = references[k].name
                   /\ surahs[k].n_aya = references[k].numberOfAyahs
                   /\ k = 1 => surahs[k].aya_base = 0
                   /\ k > 1 => surahs[k].aya_base
                                   = surahs[k - 1].aya_base + surahs[k - 1].n_aya
            /\ (\A k \in 1..Len(surahs) : surahs[k].n_aya >= 1)
                   => \A j, k \in 1..Len(surahs) :
                          j < k => surahs[j].aya_base < surahs[k].aya_base

C8_Witness ==
    /\ op = "get_surahs"
    /\ Len(ret.value) >= 2
    /\ \A k \in 1..Len(ret.value) : ret.value[k].n_aya >= 1
    /\ ret.value[2].aya_base > 0

\* C9: when the fetch of a requested verse's text fails (non-200), the call
\* fails with FetchError naming that global verse index, returns no list, and
\* fetches no verse after the failing one.
C9_FetchFailureFailsTheCall ==
    (Resolved /\ \E k \in 1..Len(args.responses) :
                     args.responses[k].status_code # 200) =>
        LET j == CHOOSE k \in 1..Len(args.responses) :
                     /\ args.responses[k].status_code # 200
                     /\ \A i \in 1..(k - 1) : args.responses[i].status_code = 200
            index == args.start + (j - 1) + AyaBase
        IN  /\ ret.kind = "raise"
            /\ ret.exc = "FetchError"
            /\ ret.msg = <<"Error in fetching text of aya number ">> \o Str(index)
            /\ ret.value = None
            /\ Len(VerseRequests) = j
            /\ VerseRequests[j] = <<"https://api.alquran.cloud/v1/ayah/">> \o Str(index)

C9_Witness ==
    /\ Resolved
    /\ Len(args.responses) = 2
    /\ args.end > args.start + 1
    /\ args.responses[1].status_code = 200
    /\ args.responses[2].status_code # 200
    /\ ret.exc = "FetchError"

\* C10: the range checks are evaluated in the order end <= n_aya, start >= 1,
\* start <= end, and the one error reported is that of the first violated
\* check in this order, also when several are violated at once.
C10_FirstViolatedCheckIsReported ==
    (Resolved /\ KnownReciter /\ KnownSurah /\ ~ValidRange) =>
        /\ RangeError
        /\ ret.msg = IF args.end > NAya THEN EndLimitMessage
                     ELSE IF args.start < 1 THEN <<"start can't be less than one">>
                     ELSE <<"end can't be less than start">>

C10_Witness ==
    /\ Resolved /\ KnownReciter /\ KnownSurah
    /\ args.start = 0 /\ args.end = NAya + 1
    /\ ret.msg = EndLimitMessage

-----------------------------------------------------------------------------
(* Properties of the batch downloader and the caption writer *)

ExpectedPath(destination, i) ==
    [dir |-> destination, name |-> <<"recitation_">> \o Str(i) \o <<".mp3">>]

\* C7: download_recitations works through the links in input order and ends
\* in one of two ways: every download succeeded and it returns one path per
\* link, the i-th being {destination}/recitation_{i}.mp3; or the download at
\* some position failed, the process exits at once, no later link is
\* attempted and no list of paths, not even a partial one, is returned.
C7_AllOrExitAtFirstFailure ==
    op = "download_recitations" =>
        LET links == args.recitations
            n == Len(downloads)
        IN  /\ n <= Len(links)
            /\ \A k \in 1..n :
                   /\ downloads[k].link = links[k]
                   /\ downloads[k].path = ExpectedPath(args.destination, k - 1)
            /\ \A k \in 1..(n - 1) : downloads[k].ok
            /\ \/ /\ ret.kind = "return"
                  /\ n = Len(links)
                  /\ \A k \in 1..n : downloads[k].ok
                  /\ ret.value = [k \in 1..n |-> ExpectedPath(args.destination, k - 1)]
               \/ /\ ret.kind = "exit"
                  /\ n >= 1
                  /\ ~downloads[n].ok
                  /\ ret.value = None

C7_Witness ==
    /\ op = "download_recitations"
    /\ Len(args.recitations) = 3
    /\ Len(downloads) = 2
    /\ downloads[1].ok /\ ~downloads[2].ok
    /\ ret.kind = "exit"

RECURSIVE PrefixSum(_, _)
PrefixSum(durations, k) ==
    IF k = 0 THEN 0 ELSE FloatAdd(PrefixSum(durations, k - 1), durations[k])

Captioned == op = "generate_ayat_caption_file"

\* C5: for texts and durations of equal length the caption writer writes
\* len(durations) lines in input order; line i carries start = the sum of
\* durations[0..i-1] (0 for i = 0), end = start + durations[i] and text =
\* texts[i], so the end of line i equals the start of line i+1.  Sums are
\* floating-point sums, taken from the left.
C5_CumulativeTimestamps ==
    (Captioned /\ Len(args.ayat_texts) = Len(args.ayat_durations)) =>
        LET durations == args.ayat_durations
            lines == captionFile.lines
        IN  /\ ret.kind = "return"
            /\ captionFile.exists
            /\ Len(lines) = Len(durations)
            /\ \A i \in 1..Len(lines) :
                   lines[i] = <<PrefixSum(durations, i - 1), ":",
                                FloatAdd(PrefixSum(durations, i - 1), durations[i]),
                                ":", args.ayat_texts[i], "\n">>
            /\ \A i \in 1..(Len(lines) - 1) : lines[i][3] = lines[i + 1][1]

C5_Witness ==
    /\ Captioned
    /\ ret.kind = "return"
    /\ Len(captionFile.lines) = 2
    /\ args.ayat_texts[1] # args.ayat_texts[2]
    /\ captionFile.lines[1][1] = 0
    /\ captionFile.lines[2][1] > 0
    /\ captionFile.lines[2][3] > captionFile.lines[2][1]

\* C6: when len(texts) # len(durations) the caption writer fails with the
\* size-mismatch error before opening the destination: no file is created,
\* and a file already at the destination is left as it was.
C6_MismatchLeavesFileUntouched ==
    [][(/\ op' = "generate_ayat_caption_file"
        /\ Len(args'.ayat_texts) # Len(args'.ayat_durations))
       => (/\ ret'.kind = "raise"
           /\ ret'.exc = "Exception"
           /\ ret'.msg = SizeMismatch
           /\ captionFile' = captionFile)]_vars

C6_Witness ==
    /\ Captioned
    /\ Len(args.ayat_texts) = 2 /\ Len(args.ayat_durations) = 1
    /\ ret.kind = "raise"
    /\ captionFile.exists
    /\ captionFile.lines # <<>>

=============================================================================
